---- MODULE Spec2Model ----
(***************************************************************************)
(* Model of blendshape_mask_tool.py: the module-level functions            *)
(* (get_mask_by_key, apply_blendshape_mask, get_vertex_adjacency,          *)
(* smooth_mask) and the BlendMaskTool handlers that call them.             *)
(*                                                                         *)
(* Conventions                                                             *)
(*  - A Python list is a TLA+ sequence; Python index i is position i+1.    *)
(*  - A mask weight is an exact rational <<num, den>> (den > 0, lowest     *)
(*    terms).  Floating-point rounding is not modelled.                    *)
(*  - A Python exception that no handler catches is the report             *)
(*    "KeyError" / "IndexError" of the call that raised it.                *)
(***************************************************************************)
EXTENDS Integers, Sequences, FiniteSets, TLC

VARIABLES
    target_field,            \* self.target_field.text()
    base_field,              \* self.base_field.text()
    region_selection_mode,   \* global region_selection_mode
    current_region_mesh,     \* global current_region_mesh
    last_applied_base_mesh,  \* global last_applied_base_mesh
    paint_index,             \* global paint_index
    blendshape_nodes,        \* host scene: mesh -> number of blendShape nodes in its history
    target_weights,          \* host scene: mesh -> targetWeights of the node created last on it
    call,                    \* the last handler run: its inputs, the steps it took, what it reported
    args,                    \* arguments of a library function under test
    ret                      \* what that function returned

vars == <<target_field, base_field, region_selection_mode, current_region_mesh,
          last_applied_base_mesh, paint_index, blendshape_nodes, target_weights, call,
          args, ret>>

toolVars == <<target_field, base_field, region_selection_mode, current_region_mesh,
              last_applied_base_mesh, paint_index, blendshape_nodes, target_weights, call>>

None == "None"

(***************************************************************************)
(* Exact rational arithmetic for mask weights.                             *)
(***************************************************************************)
Abs(n) == IF n < 0 THEN -n ELSE n

RECURSIVE GCD(_, _)
GCD(a, b) == IF b = 0 THEN a ELSE GCD(b, a % b)

Rat(n, d) ==
    LET g == GCD(Abs(n), Abs(d))
        s == IF d < 0 THEN -1 ELSE 1
    IN  <<(s * n) \div g, (s * d) \div g>>

Zero == Rat(0, 1)
One  == Rat(1, 1)
Half == Rat(1, 2)

RAdd(a, b) == Rat(a[1] * b[2] + b[1] * a[2], a[2] * b[2])
RMul(a, b) == Rat(a[1] * b[1], a[2] * b[2])
RDiv(a, b) == Rat(a[1] * b[2], a[2] * b[1])
RLess(a, b) == a[1] * b[2] < b[1] * a[2]
RInt(n) == Rat(n, 1)

\* Python max(a, b) / min(a, b): the first argument unless the second is strictly
\* greater / smaller.
PyMax(a, b) == IF RLess(a, b) THEN b ELSE a
PyMin(a, b) == IF RLess(b, a) THEN b ELSE a

RECURSIVE SeqSum(_)
SeqSum(s) == IF s = <<>> THEN Zero ELSE RAdd(s[1], SeqSum(Tail(s)))

\* list(v) of a set of small ints: its elements once each, ascending.
RECURSIVE ListOfSet(_)
ListOfSet(S) ==
    IF S = {} THEN <<>>
    ELSE LET m == CHOOSE x \in S : \A y \in S : x <= y
         IN  <<m>> \o ListOfSet(S \ {m})

SeqToSet(s) == {s[k] : k \in 1..Len(s)}

(***************************************************************************)
(* get_vertex_adjacency (lines 121-139).  num_verts and faces are what     *)
(* cmds.polyEvaluate / cmds.polyInfo give for the mesh; a face is the list *)
(* of ints parsed from polyInfo's "FACE f: v0 v1 ..." line.                *)
(***************************************************************************)
\* The (vi, vj) pairs of the two nested loops over one face, in loop order.
FacePairs(verts) ==
    LET n == Len(verts)
    IN  [k \in 1..(n * n) |-> <<verts[((k - 1) \div n) + 1], verts[((k - 1) % n) + 1]>>]

RECURSIVE AddPairsAllowSelf(_, _)
AddPairsAllowSelf(adjacency, pairs) ==
    IF pairs = <<>> THEN [err |-> FALSE, adjacency |-> adjacency]
    ELSE LET vi == pairs[1][1]
             vj == pairs[1][2]
         IN  IF vi \notin DOMAIN adjacency
             THEN [err |-> TRUE, adjacency |-> adjacency]
             ELSE AddPairsAllowSelf([adjacency EXCEPT ![vi] = @ \cup {vj}], Tail(pairs))

\* Lines 133-136: adjacency[vi].add(vj) for vi != vj; adjacency[vi] raises
\* KeyError when vi is not a key.
RECURSIVE AddPairs(_, _)
AddPairs(adjacency, pairs) ==
    IF pairs = <<>> THEN [err |-> FALSE, adjacency |-> adjacency]
    ELSE LET vi == pairs[1][1]
             vj == pairs[1][2]
         IN  IF vi # vj
             THEN IF vi \notin DOMAIN adjacency
                  THEN [err |-> TRUE, adjacency |-> adjacency]
                  ELSE AddPairs([adjacency EXCEPT ![vi] = @ \cup {vj}], Tail(pairs))
             ELSE AddPairs(adjacency, Tail(pairs))

\* Lines 130-136: the loop over the faces.
RECURSIVE AddFaces(_, _)
AddFaces(adjacency, faces) ==
    IF faces = <<>> THEN [err |-> FALSE, adjacency |-> adjacency]
    ELSE LET r == AddPairs(adjacency, FacePairs(faces[1]))
         IN  IF r.err THEN r ELSE AddFaces(r.adjacency, Tail(faces))

\* The whole function: report "ok" with the returned dict, or "KeyError" with no
\* return value.
get_vertex_adjacency(num_verts, faces) ==
    LET empty == [i \in 0..(num_verts - 1) |-> {}]
        r == AddFaces(empty, faces)
    IN  IF r.err
        THEN [report |-> "KeyError", adjacency |-> <<>>]
        ELSE [report |-> "ok",
              adjacency |-> [k \in DOMAIN r.adjacency |-> ListOfSet(r.adjacency[k])]]

(***************************************************************************)
(* smooth_mask (lines 142-150).  The Python lists live in a heap of list   *)
(* objects so that copying (mask[:]) and rebinding (new_mask = temp_mask)  *)
(* are told apart: object 0 is the caller's mask.                          *)
(***************************************************************************)
CallerMask == 0

\* adjacency.items(): the keys in insertion order, which get_vertex_adjacency
\* makes 0, 1, ..., num_verts-1.
DictKeys(adjacency) == ListOfSet(DOMAIN adjacency)

InRange(list, i) == 0 <= i /\ i < Len(list)

SmoothStepInPlace(heap, new_mask, temp_mask, i, neighbors, weight) ==
    LET cur == heap[temp_mask]
    IN  IF \/ ~ InRange(cur, i)
           \/ \E k \in 1..Len(neighbors) : ~ InRange(cur, neighbors[k])
        THEN [err |-> TRUE, heap |-> heap]
        ELSE LET neighbor_sum ==
                     SeqSum([k \in 1..Len(neighbors) |-> RMul(cur[neighbors[k] + 1], weight)])
                 value == RDiv(RAdd(cur[i + 1], neighbor_sum),
                               RAdd(One, RMul(weight, RInt(Len(neighbors)))))
             IN  [err |-> FALSE, heap |-> [heap EXCEPT ![temp_mask][i + 1] = value]]

\* Lines 147-148, for one (i, neighbors) item: reads new_mask, writes temp_mask[i].
\* An index past the end of the list raises IndexError.
SmoothStep(heap, new_mask, temp_mask, i, neighbors, weight) ==
    LET prev == heap[new_mask]
    IN  IF \/ ~ InRange(prev, i)
           \/ \E k \in 1..Len(neighbors) : ~ InRange(prev, neighbors[k])
        THEN [err |-> TRUE, heap |-> heap]
        ELSE LET neighbor_sum ==
                     SeqSum([k \in 1..Len(neighbors) |-> RMul(prev[neighbors[k] + 1], weight)])
                 value == RDiv(RAdd(prev[i + 1], neighbor_sum),
                               RAdd(One, RMul(weight, RInt(Len(neighbors)))))
             IN  [err |-> FALSE, heap |-> [heap EXCEPT ![temp_mask][i + 1] = value]]

\* Line 146: the loop over the items, visited in the given order.
RECURSIVE SmoothPass(_, _, _, _, _, _)
SmoothPass(heap, new_mask, temp_mask, adjacency, order, weight) ==
    IF order = <<>> THEN [err |-> FALSE, heap |-> heap]
    ELSE LET r == SmoothStep(heap, new_mask, temp_mask, order[1], adjacency[order[1]], weight)
         IN  IF r.err THEN r
             ELSE SmoothPass(r.heap, new_mask, temp_mask, adjacency, Tail(order), weight)

\* Lines 144-149: the remaining passes.  temp_mask = new_mask[:] allocates list
\* object `fresh`; new_mask = temp_mask rebinds the name.
RECURSIVE SmoothIterate(_, _, _, _, _, _, _)
SmoothIterate(heap, new_mask, fresh, adjacency, order, remaining, weight) ==
    IF remaining = 0 THEN [err |-> FALSE, heap |-> heap, new_mask |-> new_mask]
    ELSE LET copied == heap @@ (fresh :> heap[new_mask])
             r == SmoothPass(copied, new_mask, fresh, adjacency, order, weight)
         IN  IF r.err THEN [err |-> TRUE, heap |-> r.heap, new_mask |-> new_mask]
             ELSE SmoothIterate(r.heap, fresh, fresh + 1, adjacency, order, remaining - 1, weight)

\* smooth_mask with the traversal order of each pass made explicit.
\* result: the returned list; mask: the caller's list after the call.
SmoothInOrder(mask, adjacency, iterations, weight, order) ==
    LET heap0 == (CallerMask :> mask) @@ (1 :> mask)      \* new_mask = mask[:]
        r == SmoothIterate(heap0, 1, 2, adjacency, order, iterations, weight)
    IN  IF r.err
        THEN [report |-> "IndexError", result |-> <<>>, mask |-> r.heap[CallerMask]]
        ELSE [report |-> "ok", result |-> r.heap[r.new_mask], mask |-> r.heap[CallerMask]]

smooth_mask(mask, adjacency, iterations, weight) ==
    SmoothInOrder(mask, adjacency, iterations, weight, DictKeys(adjacency))

(***************************************************************************)
(* Region resolution and compositing inside                                *)
(* BlendMaskTool.apply_region_mask_from_selection (lines 358-363, 382).    *)
(* A selection item is the name cmds.ls returns, kept as                   *)
(* [node, vtx]: "node.vtx[n]" has vtx = n, a plain object name "node"      *)
(* (no "[" in it) has vtx = -1.                                            *)
(***************************************************************************)
NoComponent == -1

\* Color keys: tuple(map(int, color.strip("()").split(",")))  (lines 68, 73)
Red   == <<255, 0, 0>>
Green == <<0, 255, 0>>
Colors == {Red, Green}

HasBracket(v) == v.vtx # NoComponent                       \* "[" in v
ParseId(v) == v.vtx                        \* int(v.split("[")[-1].split("]")[0])

\* Line 358: the ids of the items that name a component, in selection order.
RECURSIVE SelectedIds(_)
SelectedIds(sel_vertices) ==
    IF sel_vertices = <<>> THEN <<>>
    ELSE (IF HasBracket(sel_vertices[1]) THEN <<ParseId(sel_vertices[1])>> ELSE <<>>)
         \o SelectedIds(Tail(sel_vertices))

\* VERTEX_GROUPS.get(color, [])
GroupsGet(groups, color) == IF color \in DOMAIN groups THEN groups[color] ELSE <<>>

RECURSIVE ResolveRegionOverwrite(_, _, _, _)
ResolveRegionOverwrite(region_group_verts, selected_ids, vertex_to_color, vertex_groups) ==
    IF selected_ids = <<>> THEN region_group_verts
    ELSE LET vid == selected_ids[1]
         IN  IF vid \in DOMAIN vertex_to_color
             THEN ResolveRegionOverwrite(
                      SeqToSet(GroupsGet(vertex_groups, vertex_to_color[vid])),
                      Tail(selected_ids), vertex_to_color, vertex_groups)
             ELSE ResolveRegionOverwrite(region_group_verts, Tail(selected_ids),
                                         vertex_to_color, vertex_groups)

\* Lines 360-363: the loop over selected_ids, updating the set region_group_verts.
RECURSIVE ResolveRegion(_, _, _, _)
ResolveRegion(region_group_verts, selected_ids, vertex_to_color, vertex_groups) ==
    IF selected_ids = <<>> THEN region_group_verts
    ELSE LET vid == selected_ids[1]
         IN  IF vid \in DOMAIN vertex_to_color
             THEN ResolveRegion(
                      region_group_verts
                          \cup SeqToSet(GroupsGet(vertex_groups, vertex_to_color[vid])),
                      Tail(selected_ids), vertex_to_color, vertex_groups)
             ELSE ResolveRegion(region_group_verts, Tail(selected_ids),
                                vertex_to_color, vertex_groups)

\* Line 382: final_mask = [1 if i in region_group_verts else bm ...]
Composite(base_mask, region_group_verts) ==
    [p \in 1..Len(base_mask) |-> IF (p - 1) \in region_group_verts THEN One ELSE base_mask[p]]

(***************************************************************************)
(* The session the tool runs in: the host scene and the loaded tables.     *)
(***************************************************************************)
Target == "tgt"
Smile == "smile"
SmileHead == "smile_head_lod0_meshhead_grp"
Short == "short"
Long == "long"

BaseMeshes == {Smile, SmileHead, Short, Long}
Objects == {Target} \cup BaseMeshes

Quad == << <<0, 1, 2>>, <<0, 2, 3>> >>
Tri == << <<0, 1, 2>> >>

\* cmds.polyInfo(mesh.f[f], faceToVertex=True), parsed, for every face of the mesh
MeshFaces(mesh) == IF mesh \in {Smile, SmileHead} THEN Quad ELSE Tri

\* cmds.polyEvaluate(mesh, vertex=True)
polyEvaluate(mesh) == IF mesh \in {Smile, SmileHead} THEN 4 ELSE 3

\* MASK_DATA as load_base_mask leaves it (lines 83-90): "smile" fits its mesh and
\* holds weights on both sides of [0, 1]; "short" is one weight short of its
\* mesh, "long" one weight too long.
MASK_DATA ==
    (Smile :> <<RInt(-2), Zero, Rat(1, 2), RInt(3)>>)
    @@ (Short :> <<Zero, One>>)
    @@ (Long :> <<Zero, Rat(1, 2), One, Zero>>)

\* VERTEX_TO_COLOR and VERTEX_GROUPS as load_vertex_map leaves them (lines 61-80);
\* vertex 3 has no color.
VERTEX_TO_COLOR == (0 :> Red) @@ (1 :> Red) @@ (2 :> Green)
VERTEX_GROUPS == (Red :> <<0, 1>>) @@ (Green :> <<2>>)

RegionSuffix == "_regionSelect"
RegionMeshOf(base_mesh) == base_mesh \o RegionSuffix     \* line 325

EndsWithRegionSelect(name) == \E b \in Objects : name = RegionMeshOf(b)

\* name.replace("_regionSelect", "")
StripRegionSelect(name) ==
    IF EndsWithRegionSelect(name)
    THEN CHOOSE b \in Objects : name = RegionMeshOf(b)
    ELSE name

\* base_mesh.replace('_head_lod0_meshhead_grp', '')   (line 262)
StripHeadSuffix(name) == IF name = SmileHead THEN Smile ELSE name

objExists(name) == name \in Objects

(***************************************************************************)
(* get_mask_by_key (lines 93-97)                                           *)
(***************************************************************************)
get_mask_by_key(mask_key) ==
    IF mask_key \notin DOMAIN MASK_DATA
    THEN [found |-> FALSE, mask |-> <<>>]
    ELSE [found |-> TRUE, mask |-> MASK_DATA[mask_key]]

(***************************************************************************)
(* apply_blendshape_mask (lines 100-118).  Yields the scene and the global *)
(* it leaves behind, the steps it took and what it reported.  The new      *)
(* blendShape node (line 107) is one more node in the base mesh's history; *)
(* the setAttr loop (lines 109-111) gives it the clamped mask as its       *)
(* targetWeights.  Nodes created earlier are never written again, so the   *)
(* scene keeps their number and the weights of the newest one.             *)
(***************************************************************************)
ClampLowerOnly(m) == PyMax(m, Zero)

\* min(max(m, 0.0), 1.0)
Clamp(m) == PyMin(PyMax(m, Zero), One)

ApplyUnchecked(target_mesh, base_mesh, mask) ==
    LET clamped == [p \in 1..Len(mask) |-> Clamp(mask[p])]
    IN  [report |-> "ok",
         log |-> <<"blendShape", "setAttr">>,
         nodes |-> [blendshape_nodes EXCEPT ![base_mesh] = @ + 1],
         weights |-> [target_weights EXCEPT ![base_mesh] = clamped],
         last |-> StripRegionSelect(base_mesh)]

apply_blendshape_mask(target_mesh, base_mesh, mask) ==
    LET clamped == [p \in 1..Len(mask) |-> Clamp(mask[p])]
        vert_count == polyEvaluate(base_mesh)
    IN  IF Len(clamped) # vert_count
        THEN [report |-> "VertexCountMismatch",
              log |-> <<>>,
              nodes |-> blendshape_nodes,
              weights |-> target_weights,
              last |-> last_applied_base_mesh]
        ELSE [report |-> "ok",
              log |-> <<"blendShape", "setAttr">>,
              nodes |-> [blendshape_nodes EXCEPT ![base_mesh] = @ + 1],
              weights |-> [target_weights EXCEPT ![base_mesh] = clamped],
              last |-> StripRegionSelect(base_mesh)]

(***************************************************************************)
(* The handlers of BlendMaskTool.  `call` keeps, for the handler that ran  *)
(* last: its inputs, the library steps it took in order (log), the mask it *)
(* handed to apply_blendshape_mask (mask, when applied), what it reported. *)
(***************************************************************************)
CallRecord(op, report, log, sel_vertices, iters, base_mesh, applied, mask) ==
    [op |-> op, report |-> report, log |-> log, sel_vertices |-> sel_vertices,
     iters |-> iters, base_mesh |-> base_mesh, applied |-> applied, mask |-> mask]

\* What a handler leaves behind when it returns or raises before any write.
NothingWritten(report, log, base_mesh) ==
    [report |-> report, log |-> log, applied |-> FALSE, mask |-> <<>>,
     base_mesh |-> base_mesh,
     nodes |-> blendshape_nodes, weights |-> target_weights,
     last |-> last_applied_base_mesh]

\* What the handler leaves behind once apply_blendshape_mask has returned `a`.
RegionApplied(base_mesh, mask, a) ==
    [report |-> a.report,
     log |-> <<"resolve_region", "get_mask_by_key", "get_vertex_adjacency",
               "composite", "smooth_mask", "apply_blendshape_mask">> \o a.log,
     applied |-> TRUE, mask |-> mask, base_mesh |-> base_mesh,
     nodes |-> a.nodes, weights |-> a.weights, last |-> a.last]

\* Line 385, with the smoothed mask in hand (or the IndexError smooth_mask raised).
RegionApply(target_mesh, base_mesh, smoothed) ==
    IF smoothed.report # "ok"
    THEN NothingWritten(smoothed.report,
                        <<"resolve_region", "get_mask_by_key", "get_vertex_adjacency",
                          "composite", "smooth_mask">>, base_mesh)
    ELSE RegionApplied(base_mesh, smoothed.result,
                       apply_blendshape_mask(target_mesh, base_mesh, smoothed.result))

\* Lines 382-383, with the adjacency in hand (or the KeyError
\* get_vertex_adjacency raised).
RegionSmooth(iters, region_group_verts, target_mesh, base_mesh, base_mask, adjacency) ==
    IF adjacency.report # "ok"
    THEN NothingWritten(adjacency.report,
                        <<"resolve_region", "get_mask_by_key", "get_vertex_adjacency">>,
                        base_mesh)
    ELSE RegionApply(target_mesh, base_mesh,
                     smooth_mask(Composite(base_mask, region_group_verts),
                                 adjacency.adjacency, iters, Half))

\* Lines 376-381, with the base mesh name in hand.
RegionLookup(iters, region_group_verts, target_mesh, base_mesh, base_mask) ==
    IF ~ base_mask.found
    THEN NothingWritten("UnknownMaskKey", <<"resolve_region", "get_mask_by_key">>, base_mesh)
    ELSE RegionSmooth(iters, region_group_verts, target_mesh, base_mesh, base_mask.mask,
                      get_vertex_adjacency(polyEvaluate(base_mesh), MeshFaces(base_mesh)))

\* Lines 365-377, with the region resolved.
RegionMeshes(iters, region_group_verts) ==
    IF target_field = "" \/ base_field = ""
    THEN NothingWritten("MissingMesh", <<"resolve_region">>, base_field)
    ELSE IF EndsWithRegionSelect(base_field)
    THEN RegionLookup(iters, region_group_verts, target_field,
                      StripRegionSelect(base_field),
                      get_mask_by_key(StripRegionSelect(base_field)))
    ELSE RegionLookup(iters, region_group_verts, target_field, base_field,
                      get_mask_by_key(base_field))

\* apply_region_mask_from_selection (lines 351-385) as a function of the spin
\* box value and the host selection it reads.
apply_region_mask_from_selection(iters, sel_vertices) ==
    IF sel_vertices = <<>>
    THEN NothingWritten("EmptySelection", <<>>, base_field)
    ELSE RegionMeshes(iters,
                      ResolveRegion({}, SelectedIds(sel_vertices),
                                    VERTEX_TO_COLOR, VERTEX_GROUPS))

Uncaught(report) == report \in {"KeyError", "IndexError"}

(***************************************************************************)
(* Idle values of the variables a specification does not use.              *)
(***************************************************************************)
NoCall == [op |-> "none"]
NotCalled == [report |-> "not called"]

ToolIdle ==
    /\ target_field = ""
    /\ base_field = ""
    /\ region_selection_mode = FALSE
    /\ current_region_mesh = None
    /\ last_applied_base_mesh = None
    /\ paint_index = 0
    /\ blendshape_nodes = <<>>
    /\ target_weights = <<>>
    /\ call = NoCall

(***************************************************************************)
(* SpecAdj: get_vertex_adjacency on every small topology, faces that name  *)
(* a vertex past the end included.                                         *)
(***************************************************************************)
MaxVerts == 3
\* vertex entries over all the faces of a topology
MaxSlots == 4

SeqsOfLen(S, k) == [1..k -> S]

\* The face lists over vertex indices 0..num_verts (num_verts itself is past the
\* end) whose faces hold at most `slots` vertex entries in all.
RECURSIVE Topologies(_, _)
Topologies(num_verts, slots) ==
    {<<>>} \cup
    UNION {{<<face>> \o rest : face \in SeqsOfLen(0..num_verts, k),
                               rest \in Topologies(num_verts, slots - k)} : k \in 1..slots}

AdjInputs ==
    UNION {[num_verts : {n}, faces : Topologies(n, MaxSlots)] : n \in 1..MaxVerts}

InitAdj == ToolIdle /\ args \in AdjInputs /\ ret = NotCalled

CallGetVertexAdjacency ==
    /\ ret = NotCalled
    /\ ret' = get_vertex_adjacency(args.num_verts, args.faces)
    /\ UNCHANGED <<toolVars, args>>

NextAdj == CallGetVertexAdjacency

SpecAdj == InitAdj /\ [][NextAdj]_vars

FaceVerts(face) == SeqToSet(face)

\* The face-clique relation of the topology, stated on sets.
ShareFace(faces, i, j) ==
    \E f \in 1..Len(faces) : i \in FaceVerts(faces[f]) /\ j \in FaceVerts(faces[f])

NoDuplicates(list) == \A a, b \in 1..Len(list) : list[a] = list[b] => a = b

OutOfRangeFace(num_verts, face) == \E v \in FaceVerts(face) : v < 0 \/ v >= num_verts

InvalidTopologyInput ==
    \E f \in 1..Len(args.faces) : OutOfRangeFace(args.num_verts, args.faces[f])

\* C3: get_vertex_adjacency returns a graph for every topology whose faces stay
\* inside [0, num_verts), and whenever it returns a graph, the graph has exactly
\* the keys 0..num_verts-1, j is listed under i exactly when i # j and some
\* face holds both, no list repeats a vertex, no vertex lists itself, and the
\* relation is symmetric.
C3_FaceCliqueAdjacency ==
    /\ (ret # NotCalled /\ ~ InvalidTopologyInput) => ret.report = "ok"
    /\ ret.report = "ok" =>
        LET adj == ret.adjacency
            V == 0..(args.num_verts - 1)
        IN  /\ DOMAIN adj = V
            /\ \A i \in V :
                  /\ SeqToSet(adj[i])
                       = {j \in 0..args.num_verts : j # i /\ ShareFace(args.faces, i, j)}
                  /\ NoDuplicates(adj[i])
                  /\ i \notin SeqToSet(adj[i])
                  /\ \A j \in SeqToSet(adj[i]) : j \in V /\ i \in SeqToSet(adj[j])

\* A graph was returned for two faces that share a vertex: vertex 1 collects a
\* neighbour from each face.
C3_Witness ==
    /\ ret.report = "ok"
    /\ args.num_verts = 3
    /\ args.faces = << <<0, 1>>, <<2, 1>> >>
    /\ ret.adjacency = [i \in 0..2 |-> CASE i = 0 -> <<1>> [] i = 1 -> <<0, 2>> [] i = 2 -> <<1>>]

SmoothVerts == 3
SmoothIters == 2

MaskValues == {Zero, One}     \* smoothing is linear in the mask: 0/1 masks span every field
Weights == {Half, RInt(2)}

EdgesOver(n) == {e \in (0..(n - 1)) \X (0..(n - 1)) : e[1] < e[2]}

GraphOf(n, edges) ==
    [i \in 0..(n - 1) |->
        ListOfSet({j \in 0..(n - 1) : <<i, j>> \in edges \/ <<j, i>> \in edges})]

SmoothInputs ==
    UNION {[mask : SeqsOfLen(MaskValues, n),
            adjacency : {GraphOf(n, E) : E \in SUBSET EdgesOver(n)},
            iterations : 1..SmoothIters,
            weight : Weights] : n \in 1..SmoothVerts}

InitSmooth == ToolIdle /\ args \in SmoothInputs /\ ret = NotCalled

CallSmoothMask ==
    /\ ret = NotCalled
    /\ ret' = smooth_mask(args.mask, args.adjacency, args.iterations, args.weight)
    /\ UNCHANGED <<toolVars, args>>

NextSmooth == CallSmoothMask

SpecSmooth == InitSmooth /\ [][NextSmooth]_vars

RECURSIVE SetSum(_, _)
SetSum(field, S) ==
    IF S = {} THEN Zero
    ELSE LET j == CHOOSE x \in S : TRUE
         IN  RAdd(field[j + 1], SetSum(field, S \ {j}))

\* One pass as the formula states it, every value taken from the previous field.
FormulaPass(prev, adjacency, w) ==
    [p \in 1..Len(prev) |->
        IF (p - 1) \in DOMAIN adjacency
        THEN LET N == SeqToSet(adjacency[p - 1])
             IN  RDiv(RAdd(prev[p], RMul(w, SetSum(prev, N))),
                      RAdd(One, RMul(w, RInt(Cardinality(N)))))
        ELSE prev[p]]

RECURSIVE FormulaPasses(_, _, _, _)
FormulaPasses(field, adjacency, w, k) ==
    IF k = 0 THEN field ELSE FormulaPasses(FormulaPass(field, adjacency, w), adjacency, w, k - 1)

Reordered(order, f) == [k \in 1..Len(order) |-> order[f[k]]]

\* C2: smooth_mask returns the field obtained by k passes of
\* new[i] = (prev[i] + w * sum of prev[j], j a neighbor of i) / (1 + w * |neighbors(i)|),
\* each pass reading only the previous pass's field; visiting the vertices in any
\* other order gives the same result; a vertex without neighbors keeps its value;
\* the caller's mask is left as it was.
C2_DoubleBuffered ==
    ret # NotCalled =>
        /\ ret.report = "ok"
        /\ ret.result = FormulaPasses(args.mask, args.adjacency, args.weight, args.iterations)
        /\ \A f \in Permutations(1..Len(DictKeys(args.adjacency))) :
              SmoothInOrder(args.mask, args.adjacency, args.iterations, args.weight,
                            Reordered(DictKeys(args.adjacency), f)).result = ret.result
        /\ \A i \in DOMAIN args.adjacency :
              args.adjacency[i] = <<>> => ret.result[i + 1] = args.mask[i + 1]
        /\ ret.mask = args.mask

\* Two passes over a path 0 - 1 - 2 with a non-constant mask: vertex 1 is read
\* by both its neighbors after the sweep has passed it.
C2_Witness ==
    /\ ret # NotCalled
    /\ args.iterations = 2
    /\ args.adjacency = GraphOf(3, {<<0, 1>>, <<1, 2>>})
    /\ args.mask = <<One, Zero, Zero>>
    /\ args.weight = Half
    /\ ret.result = <<Rat(19, 36), Rat(7, 24), Rat(1, 12)>>

(***************************************************************************)
(* SpecRegion: the region resolution loop on every small selection and     *)
(* pair of color tables, consistent or not.                                *)
(***************************************************************************)
RegionVerts == 2
MaxSel == 2

PartialFunctions(D, R) == UNION {[S -> R] : S \in SUBSET D}

RegionInputs ==
    [selected_ids : UNION {SeqsOfLen(0..RegionVerts, k) : k \in 0..MaxSel},
     vertex_to_color : PartialFunctions(0..(RegionVerts - 1), Colors),
     vertex_groups : PartialFunctions(Colors, {ListOfSet(S) : S \in SUBSET (0..(RegionVerts - 1))})]

InitRegion == ToolIdle /\ args \in RegionInputs /\ ret = NotCalled

CallResolveRegion ==
    /\ ret = NotCalled
    /\ ret' = [report |-> "ok",
               region_group_verts |->
                   ResolveRegion({}, args.selected_ids, args.vertex_to_color, args.vertex_groups)]
    /\ UNCHANGED <<toolVars, args>>

NextRegion == CallResolveRegion

SpecRegion == InitRegion /\ [][NextRegion]_vars

\* The affected set as the union the claim states, over the selected set.
AffectedUnion(selected, vertex_to_color, vertex_groups) ==
    UNION {IF vertex_to_color[v] \in DOMAIN vertex_groups
           THEN SeqToSet(vertex_groups[vertex_to_color[v]])
           ELSE {} : v \in selected \cap DOMAIN vertex_to_color}

\* C4: the resolved region is the union, over the selected vertices that have a
\* color, of that color's vertex list; vertices without a color and colors
\* without a list add nothing; every permutation of the selection resolves to
\* the same set.
C4_RegionIsUnionOfGroups ==
    ret # NotCalled =>
        /\ ret.region_group_verts
             = AffectedUnion(SeqToSet(args.selected_ids), args.vertex_to_color, args.vertex_groups)
        /\ \A f \in Permutations(1..Len(args.selected_ids)) :
              ResolveRegion({}, Reordered(args.selected_ids, f),
                            args.vertex_to_color, args.vertex_groups)
                = ret.region_group_verts

\* A selection of a colored vertex followed by one absent from the table, with
\* a Red group that does not hold the selected vertex itself.
C4_Witness ==
    /\ ret # NotCalled
    /\ args.selected_ids = <<0, 2>>
    /\ args.vertex_to_color = [v \in {0, 1} |-> IF v = 0 THEN Red ELSE Green]
    /\ args.vertex_groups = [c \in {Red} |-> <<1>>]
    /\ ret.region_group_verts = {1}

(***************************************************************************)
(* Spec: the tool.  The user selects objects (polled by the timer), clicks *)
(* the buttons, and picks components while in region selection mode.       *)
(***************************************************************************)
\* blendShape nodes per base mesh
MaxNodes == 2
\* largest spin box value tried
MaxIters == 2

SpinBoxMin == 1
SpinBoxMax == 30

SpinBoxValues == {n \in SpinBoxMin..SpinBoxMax : n <= MaxIters}

\* What cmds.ls(selection=True, objectsOnly=True) can return to the timer: nothing,
\* the target alone, or the target followed by a base mesh.
ObjectSelections == {<<>>, <<Target>>} \cup {<<Target, b>> : b \in BaseMeshes}

Vtx(node, n) == [node |-> node, vtx |-> n]
WholeObject(node) == [node |-> node, vtx |-> NoComponent]

\* What cmds.ls(selection=True, flatten=True) can return while the region mesh is
\* up: nothing, the mesh itself (no component picked), or some of vertex 0 (Red),
\* vertex 2 (Green) and vertex 3 (no color).
ComponentSelections(region_mesh) ==
    {<<>>,
     <<WholeObject(region_mesh)>>,
     <<Vtx(region_mesh, 0)>>,
     <<Vtx(region_mesh, 3)>>,
     <<Vtx(region_mesh, 0), Vtx(region_mesh, 2)>>,
     <<Vtx(region_mesh, 3), Vtx(region_mesh, 0)>>}

WithinNodeBound(nodes) == \A m \in BaseMeshes : nodes[m] <= MaxNodes

Init ==
    /\ target_field = ""
    /\ base_field = ""
    /\ region_selection_mode = FALSE
    /\ current_region_mesh = None
    /\ last_applied_base_mesh = None
    /\ paint_index = 0
    /\ blendshape_nodes = [m \in BaseMeshes |-> 0]
    /\ target_weights = [m \in BaseMeshes |-> <<>>]
    /\ call = CallRecord("none", "ok", <<>>, <<>>, 0, "", FALSE, <<>>)
    /\ args = NoCall
    /\ ret = NotCalled

\* on_selection_changed (lines 238-257), the 0.5 s timer's slot.
on_selection_changed ==
    \E sel_objects \in ObjectSelections :
        /\ IF region_selection_mode
           THEN UNCHANGED <<target_field, base_field>>
           ELSE IF sel_objects # <<>>
                   /\ \A k \in 1..Len(sel_objects) : EndsWithRegionSelect(sel_objects[k])
           THEN UNCHANGED <<target_field, base_field>>
           ELSE IF sel_objects = <<>>
           THEN target_field' = "" /\ base_field' = ""
           ELSE IF Len(sel_objects) = 1
           THEN target_field' = sel_objects[1] /\ base_field' = ""
           ELSE target_field' = sel_objects[1] /\ base_field' = sel_objects[2]
        /\ call' = CallRecord("on_selection_changed", "ok", <<>>, <<>>, 0, "", FALSE, <<>>)
        /\ UNCHANGED <<region_selection_mode, current_region_mesh, last_applied_base_mesh,
                       paint_index, blendshape_nodes, target_weights, args, ret>>

\* apply_mask_from_ui (lines 259-271); the button is disabled in region
\* selection mode (line 287).
apply_mask_from_ui ==
    /\ ~ region_selection_mode
    /\ LET target_mesh == target_field
           base_mesh == base_field
           mask_key == StripHeadSuffix(base_mesh)
           mask == get_mask_by_key(mask_key)
       IN  IF base_mesh = "" \/ target_mesh = "" \/ mask_key = ""
           THEN /\ call' = CallRecord("apply_mask_from_ui", "MissingMesh", <<>>, <<>>, 0,
                                      base_mesh, FALSE, <<>>)
                /\ UNCHANGED <<blendshape_nodes, target_weights, last_applied_base_mesh>>
           ELSE IF ~ mask.found
           THEN /\ call' = CallRecord("apply_mask_from_ui", "UnknownMaskKey",
                                      <<"get_mask_by_key">>, <<>>, 0, base_mesh, FALSE, <<>>)
                /\ UNCHANGED <<blendshape_nodes, target_weights, last_applied_base_mesh>>
           ELSE \E applied \in {apply_blendshape_mask(target_mesh, base_mesh, mask.mask)} :
                /\ WithinNodeBound(applied.nodes)
                /\ call' = CallRecord("apply_mask_from_ui", applied.report,
                                      <<"get_mask_by_key", "apply_blendshape_mask">>
                                          \o applied.log,
                                      <<>>, 0, base_mesh, TRUE, mask.mask)
                /\ blendshape_nodes' = applied.nodes
                /\ target_weights' = applied.weights
                /\ last_applied_base_mesh' = applied.last
    /\ UNCHANGED <<target_field, base_field, region_selection_mode, current_region_mesh,
                   paint_index, args, ret>>

\* toggle_region_selection, first click (lines 276-298), with
\* create_region_selection_mesh (lines 319-349).
toggle_region_selection_create ==
    /\ ~ region_selection_mode
    /\ IF base_field = "" \/ ~ objExists(base_field)
       THEN /\ call' = CallRecord("toggle_region_selection", "MissingMesh", <<>>, <<>>, 0,
                                  base_field, FALSE, <<>>)
            /\ UNCHANGED <<region_selection_mode, current_region_mesh>>
       ELSE /\ call' = CallRecord("toggle_region_selection", "ok", <<>>, <<>>, 0,
                                  base_field, FALSE, <<>>)
            /\ region_selection_mode' = TRUE
            /\ current_region_mesh' = RegionMeshOf(base_field)
    /\ UNCHANGED <<target_field, base_field, last_applied_base_mesh, paint_index,
                   blendshape_nodes, target_weights, args, ret>>

\* toggle_region_selection, second click (lines 300-317): apply the region mask,
\* then delete the region mesh and leave the mode.  An exception raised inside
\* apply_region_mask_from_selection leaves the slot before line 303.
toggle_region_selection_apply ==
    /\ region_selection_mode
    /\ \E iters \in SpinBoxValues, sel_vertices \in ComponentSelections(current_region_mesh) :
          \E r \in {apply_region_mask_from_selection(iters, sel_vertices)} :
              /\ WithinNodeBound(r.nodes)
              /\ call' = CallRecord("apply_region_mask_from_selection", r.report, r.log,
                                    sel_vertices, iters, r.base_mesh, r.applied, r.mask)
              /\ blendshape_nodes' = r.nodes
              /\ target_weights' = r.weights
              /\ last_applied_base_mesh' = r.last
              /\ IF Uncaught(r.report)
                 THEN UNCHANGED <<region_selection_mode, current_region_mesh>>
                 ELSE /\ current_region_mesh' = None
                      /\ region_selection_mode' = FALSE
    /\ UNCHANGED <<target_field, base_field, paint_index, args, ret>>

\* toggle_blendshape_paint_tool (lines 428-457); the button is disabled in region
\* selection mode (line 285).  blendshape_nodes[paint_index] raises IndexError
\* when paint_index is past the end of the list, and the slot stops there.
toggle_blendshape_paint_tool ==
    /\ ~ region_selection_mode
    /\ LET base_mesh == IF EndsWithRegionSelect(last_applied_base_mesh)
                        THEN StripRegionSelect(last_applied_base_mesh)
                        ELSE last_applied_base_mesh
           record(report, log) ==
               CallRecord("toggle_blendshape_paint_tool", report, log, <<>>, 0,
                          last_applied_base_mesh, FALSE, <<>>)
       IN  IF last_applied_base_mesh = None \/ ~ objExists(last_applied_base_mesh)
           THEN call' = record("NoBaseMesh", <<>>) /\ UNCHANGED paint_index
           ELSE IF blendshape_nodes[base_mesh] = 0
           THEN call' = record("NoBlendShape", <<>>) /\ UNCHANGED paint_index
           ELSE IF ~ (0 <= paint_index /\ paint_index < blendshape_nodes[base_mesh])
           THEN call' = record("IndexError", <<"index">>) /\ UNCHANGED paint_index
           ELSE /\ call' = record("ok", <<"index">>)
                /\ paint_index' = (paint_index + 1) % blendshape_nodes[base_mesh]
    /\ UNCHANGED <<target_field, base_field, region_selection_mode, current_region_mesh,
                   last_applied_base_mesh, blendshape_nodes, target_weights, args, ret>>

Next ==
    \/ on_selection_changed
    \/ apply_mask_from_ui
    \/ toggle_region_selection_create
    \/ toggle_region_selection_apply
    \/ toggle_blendshape_paint_tool

Spec == Init /\ [][Next]_vars

RegionOp == "apply_region_mask_from_selection"

\* C1: a handler that has called apply_blendshape_mask with a mask whose length
\* is not the base mesh's vertex count reports VertexCountMismatch and leaves
\* the blendShape nodes, every target weight and last_applied_base_mesh as
\* they were.
C1_RejectedApplyWritesNothing ==
    [][(call'.applied /\ Len(call'.mask) # polyEvaluate(call'.base_mesh))
          => /\ call'.report = "VertexCountMismatch"
             /\ blendshape_nodes' = blendshape_nodes
             /\ target_weights' = target_weights
             /\ last_applied_base_mesh' = last_applied_base_mesh]_vars

\* A mask of the wrong length was rejected after an earlier mask had been
\* applied to another mesh, whose node, weights and name are still there.
C1_Witness ==
    /\ call.applied
    /\ Len(call.mask) # polyEvaluate(call.base_mesh)
    /\ call.report = "VertexCountMismatch"
    /\ last_applied_base_mesh = Smile
    /\ blendshape_nodes[Smile] > 0
    /\ target_weights[Smile] # <<>>

\* Clamping to [0, 1], stated by cases.
ClampedValue(x) == IF RLess(x, Zero) THEN Zero ELSE IF RLess(One, x) THEN One ELSE x

\* The face-clique graph of a mesh, stated on sets.
FaceCliqueGraph(mesh) ==
    [i \in 0..(polyEvaluate(mesh) - 1) |->
        ListOfSet({j \in 0..(polyEvaluate(mesh) - 1) :
                      j # i /\ ShareFace(MeshFaces(mesh), i, j)})]

\* C5: every target weight lies in [0, 1]; the weights a successful apply wrote
\* are the mask it was handed, clamped value by value; and on the region path
\* that mask is the composited base mask after call.iters unclamped passes.
C5_WrittenWeightsClamped ==
    /\ \A m \in BaseMeshes : \A p \in 1..Len(target_weights[m]) :
          ~ RLess(target_weights[m][p], Zero) /\ ~ RLess(One, target_weights[m][p])
    /\ (call.applied /\ call.report = "ok") =>
          target_weights[call.base_mesh]
            = [p \in 1..Len(call.mask) |-> ClampedValue(call.mask[p])]
    /\ (call.op = RegionOp /\ call.applied) =>
          call.mask
            = FormulaPasses(
                  Composite(MASK_DATA[call.base_mesh],
                            AffectedUnion(SeqToSet(SelectedIds(call.sel_vertices)),
                                          VERTEX_TO_COLOR, VERTEX_GROUPS)),
                  FaceCliqueGraph(call.base_mesh), Half, call.iters)

\* A region mask was written whose smoothed values fell below 0 and above 1.
C5_Witness ==
    /\ call.op = RegionOp
    /\ call.applied
    /\ call.report = "ok"
    /\ \E p \in 1..Len(call.mask) : RLess(call.mask[p], Zero)
    /\ \E p \in 1..Len(call.mask) :
          RLess(One, call.mask[p]) /\ target_weights[call.base_mesh][p] = One

\* C6: a region-mask request whose selection holds no vertex is rejected as
\* EmptySelection before the compositor: nothing is composited, smoothed or
\* written.  Stated for a base mesh whose stored mask fits it, where nothing
\* else can stop the request.
C6_EmptySelectionRejected ==
    (/\ call.op = RegionOp
     /\ SelectedIds(call.sel_vertices) = <<>>
     /\ call.base_mesh \in DOMAIN MASK_DATA
     /\ Len(MASK_DATA[call.base_mesh]) = polyEvaluate(call.base_mesh))
        => /\ call.report = "EmptySelection"
           /\ ~ call.applied
           /\ SeqToSet(call.log) \cap {"composite", "smooth_mask", "apply_blendshape_mask"} = {}

\* C7: a request that names an unknown mask key is reported as UnknownMaskKey
\* and has done no region resolution, compositing, adjacency build or write.
C7_UnknownKeyAbortsFirst ==
    call.report = "UnknownMaskKey"
        => /\ ~ call.applied
           /\ SeqToSet(call.log)
                \cap {"resolve_region", "composite", "get_vertex_adjacency",
                      "smooth_mask", "apply_blendshape_mask"} = {}

\* C9: on the region path nothing ends in an uncaught exception, and a stored
\* base mask whose length is not the mesh's vertex count ends in a reported
\* VertexCountMismatch.
C9_RegionPathReportsMismatch ==
    call.op = RegionOp
        => /\ ~ Uncaught(call.report)
           /\ (/\ call.sel_vertices # <<>>
               /\ call.base_mesh \in DOMAIN MASK_DATA
               /\ Len(MASK_DATA[call.base_mesh]) # polyEvaluate(call.base_mesh))
                 => call.report = "VertexCountMismatch"

\* C10: whenever toggle_blendshape_paint_tool has indexed the blendShape nodes
\* of the last applied base mesh, paint_index was inside the list.
C10_PaintIndexInRange ==
    (call.op = "toggle_blendshape_paint_tool" /\ call.log = <<"index">>)
        => /\ call.report # "IndexError"
           /\ paint_index < blendshape_nodes[last_applied_base_mesh]

====
